---- MODULE Spec2Model ----
(***************************************************************************)
(* Lecture_Calendar_Fixer: the reconciliation run of                       *)
(* lecture_calendar_fixer.py (update_changed_events and the bounded retry  *)
(* try_deleting_calendar_item) against a provider calendar, with the       *)
(* event wrapper conversions of event.py (from_outlook_event,              *)
(* to_outlook_event, __eq__, get_calendar_items).                          *)
(*                                                                         *)
(* Time is counted in minutes.  A datetime is a record [wall, tz]: the     *)
(* wall-clock reading, whether tzinfo is set, and the UTC offset; the      *)
(* provider stores instants (wall - tz).                                   *)
(***************************************************************************)
EXTENDS Integers, Sequences, FiniteSets, TLC

VARIABLES
    calendar,            \* the provider calendar folder: sequence of calendar items
    next_id,             \* provider-native id given to the next saved item
    wrapped_events,      \* the desired events handed to update_changed_events
    local_tz,            \* UTC offset of the machine's local timezone (astimezone())
    now,                 \* the current instant
    pc,                  \* position of the run
    calendar_items,      \* the items get_calendar_items returned to this run
    calendar_item_dict,  \* dict organizer email -> calendar item (insertion ordered)
    lecture_event_dict,  \* dict organizer -> EventWrapper (insertion ordered)
    i,                   \* position of the loop over lecture_event_dict.values()
    j,                   \* position of the loop over calendar_item_dict.values()
    item,                \* argument of the running try_deleting_calendar_item
    attempts,            \* its local counter
    ret,                 \* its return value
    run,                 \* number of the run of the script
    log,                 \* provider operations issued in the current run
    calm,                \* no provider call failed and no time passed so far
    policy,              \* what config.py answers: the user's policy settings
    env,                 \* config.py's mode switches, .env values and keyring
    mpc,                 \* position of the main program
    calls,               \* the calls the main program has made, in order
    source,              \* a record of the source: a feed event or an API dict
    made,                \* the EventWrapper made of it
    saved,               \* the CalendarItem to_outlook_event saved for it
    npc                  \* position in the handling of the source record

\* the state of update_changed_events and of the provider
reconciler == << calendar, next_id, wrapped_events, local_tz, now, pc,
                 calendar_items, calendar_item_dict, lecture_event_dict, i, j,
                 item, attempts, ret, run, log, calm >>

\* the state of the main program
main == << env, mpc, calls >>

\* the state of the handling of one source record
normalizer == << source, made, saved, npc >>

vars == << reconciler, policy, main, normalizer >>

-----------------------------------------------------------------------------
(* Bounds of the model *)

MaxItems == 2        \* calendar items present before the first run
MaxDesired == 2      \* events in wrapped_events
MaxRuns == 2         \* runs of the script in succession
MaxTicks == 1        \* times the clock advances

(* Program constants *)

MaxAttempts == 5
Vienna == 60         \* UTC offset of pytz.timezone("Europe/Vienna") in winter

NoOrganizer == "<None>"   \* item.organizer is None
NoItem == [id |-> 0]

TickStep == 60
Now0 == 120
MaxNow == Now0 + MaxTicks * TickStep

-----------------------------------------------------------------------------
(* Strings with structure: a category is a sequence of pieces, so that the *)
(* substring test of get_calendar_items is computed.                       *)

MarkerCategory == << "MCI-DESIGNER-TERMIN" >>
LectureCategory == << "Vorlesung" >>
PrivateCategory == << "Privat" >>

get_default_organizer == "MCI-DESIGNER-TERMIN"

\* `needle in hay` of Python on strings, on sequences of pieces
IsIn(needle, hay) ==
    \E p \in 1..(Len(hay) - Len(needle) + 1) :
        SubSeq(hay, p, p + Len(needle) - 1) = needle

-----------------------------------------------------------------------------
(* Ordered dicts: sequences of [k, v], a key at most once *)

DictHas(d, k) == \E p \in 1..Len(d) : d[p].k = k

DictGet(d, k) == d[CHOOSE p \in 1..Len(d) : d[p].k = k].v

DictSet(d, k, v) ==
    IF DictHas(d, k)
    THEN [p \in 1..Len(d) |-> IF d[p].k = k THEN [k |-> k, v |-> v] ELSE d[p]]
    ELSE Append(d, [k |-> k, v |-> v])

DictDel(d, k) == SelectSeq(d, LAMBDA e : e.k # k)

-----------------------------------------------------------------------------
(* event.py *)

\* datetime.ctime(): the wall-clock reading, without the offset
Ctime(dt) == dt.wall

\* start_dt.strftime("%Y-%m-%d %H:%M"), the start field of an EventWrapper:
\* the wall-clock reading too
Strftime(dt) == dt.wall

\* the instant a datetime denotes, a naive one read in the zone naive_tz
Instant(dt, naive_tz) == dt.wall - (IF dt.aware THEN dt.tz ELSE naive_tz)

\* datetime.astimezone(): the instant in the machine's local timezone
Astimezone(instant) ==
    [wall |-> instant + local_tz, aware |-> TRUE, tz |-> local_tz]

\* item.organizer.email_address if item.organizer else ""
OrganizerEmail(it) == IF it.organizer = NoOrganizer THEN "" ELSE it.organizer

from_outlook_event(event) ==
    [ subject   |-> event.subject,
      start_dt  |-> Astimezone(event.start),
      duration  |-> (event.end - event.start),
      location  |-> IF event.location = "" THEN "-" ELSE event.location,
      organizer |-> IF event.organizer = NoOrganizer
                    THEN get_default_organizer ELSE event.organizer,
      is_online |-> FALSE,
      kind      |-> "Lehrveranstaltung" ]

\* a comparison that also looks at is_online
Eq_WithOnline(a, b) ==
    /\ a.subject = b.subject
    /\ Ctime(a.start_dt) = Ctime(b.start_dt)
    /\ a.duration = b.duration
    /\ a.location = b.location
    /\ a.organizer = b.organizer
    /\ a.is_online = b.is_online

\* EventWrapper.__eq__; start is a str and start_dt is set on both sides, so
\* that the starts compared are the ctime() of the two start_dt
Eq(a, b) ==
    /\ a.subject = b.subject
    /\ Ctime(a.start_dt) = Ctime(b.start_dt)
    /\ a.duration = b.duration
    /\ a.location = b.location
    /\ a.organizer = b.organizer

\* to_outlook_event passes no organizer: the provider reports its own, the
\* mailbox owner (EXCHANGE_EMAIL)
AccountEmail == "me@mci.edu"

\* the CalendarItem built by to_outlook_event
NewItem(e, id) ==
    LET start == Instant(e.start_dt, Vienna) IN
    [ id         |-> id,
      subject    |-> e.subject,
      start      |-> start,
      end        |-> start + e.duration,
      location   |-> e.location,
      organizer  |-> AccountEmail,
      categories |-> { LectureCategory, MarkerCategory } ]

\* the whole folder, whatever the categories
get_calendar_items_Unfiltered(organizer_filter) == calendar

get_calendar_items(organizer_filter) ==
    SelectSeq(calendar,
              LAMBDA it : \E cat \in it.categories : IsIn(organizer_filter, cat))

-----------------------------------------------------------------------------
(* The inputs: what the calendar holds before the first run, and the       *)
(* events the source delivers.                                             *)

Subjects == { "Math" }
Durations == { 90 }
Organizers == { "uid1", "uid2" }

Early == Now0                 \* starts at the instant the run begins
Late == Now0 + TickStep       \* starts later

\* the tool's items of the two organizers, and one of the user's own that the
\* tool would delete if it looked at it
ItemBodies ==
    { b \in [ subject    : Subjects,
              start      : { Early, Late },
              duration   : Durations,
              location   : { "-" },
              organizer  : Organizers,
              categories : { { LectureCategory, MarkerCategory },
                             { PrivateCategory } } ] :
        /\ b.organizer = "uid2" => b.start = Late
        /\ MarkerCategory \notin b.categories
               => b.organizer = "uid1" /\ b.start = Late }

\* the source's events: timezone-aware, as the feed delivers them
Events ==
    { e \in [ subject   : Subjects,
              start_dt  : [ wall  : { Early + Vienna, Late + Vienna },
                            aware : { TRUE },
                            tz    : { Vienna } ],
              duration  : Durations,
              location  : { "-" },
              organizer : Organizers,
              is_online : BOOLEAN,
              kind      : { "Lehrveranstaltung" } ] :
        /\ e.organizer = "uid2" => e.start_dt.wall = Late + Vienna
        /\ e.is_online => e.organizer = "uid1" /\ e.start_dt.wall = Early + Vienna }

\* a config.py that sends no lecture anywhere else
NoPolicy == [ async |-> { }, elsewhere |-> { }, travel |-> 0 ]

NoEnv == [ use_ical_link |-> FALSE ]
NoRecord == [ type |-> "none" ]

\* the main program is not looked at
MainIdle ==
    /\ env = NoEnv
    /\ mpc = "off"
    /\ calls = << >>

\* no source record is looked at
NormalizerIdle ==
    /\ source = NoRecord
    /\ made = NoRecord
    /\ saved = NoRecord
    /\ npc = "off"

StoredItem(b, id) ==
    [ id         |-> id,
      subject    |-> b.subject,
      start      |-> b.start,
      end        |-> b.start + b.duration,
      location   |-> b.location,
      organizer  |-> b.organizer,
      categories |-> b.categories ]

Init ==
    /\ \E n \in 0..MaxItems : \E f \in [1..n -> ItemBodies] :
           /\ calendar = [p \in 1..n |-> StoredItem(f[p], p)]
           /\ next_id = n + 1
    /\ \E n \in 0..MaxDesired : wrapped_events \in [1..n -> Events]
    /\ local_tz = Vienna
    /\ now = Now0
    /\ pc = "idle"
    /\ calendar_items = << >>
    /\ calendar_item_dict = << >>
    /\ lecture_event_dict = << >>
    /\ i = 1
    /\ j = 1
    /\ item = NoItem
    /\ attempts = 0
    /\ ret = FALSE
    /\ run = 1
    /\ log = << >>
    /\ calm = TRUE
    /\ policy = NoPolicy
    /\ MainIdle
    /\ NormalizerIdle

-----------------------------------------------------------------------------
(* lecture_calendar_fixer.py *)

RECURSIVE ItemDict(_)
\* for item in calendar_items: calendar_item_dict[organizer_email] = item
ItemDict(items) ==
    IF items = << >> THEN << >>
    ELSE LET last == items[Len(items)] IN
         DictSet(ItemDict(SubSeq(items, 1, Len(items) - 1)),
                 OrganizerEmail(last), last)

RECURSIVE EventDict_FirstWins(_)
\* a dict that keeps the first event of an organizer
EventDict_FirstWins(events) ==
    IF events = << >> THEN << >>
    ELSE LET last == events[Len(events)]
             d == EventDict_FirstWins(SubSeq(events, 1, Len(events) - 1)) IN
         IF DictHas(d, last.organizer) THEN d
         ELSE DictSet(d, last.organizer, last)

RECURSIVE EventDict(_)
\* for event in wrapped_events: lecture_event_dict[event.organizer] = event
EventDict(events) ==
    IF events = << >> THEN << >>
    ELSE LET last == events[Len(events)] IN
         DictSet(EventDict(SubSeq(events, 1, Len(events) - 1)),
                 last.organizer, last)

Remove(cal, it) == SelectSeq(cal, LAMBDA x : x.id # it.id)

Entry(op, phase, ok, it, key) ==
    [ op |-> op, phase |-> phase, ok |-> ok, it |-> it, key |-> key, at |-> now ]

\* the clock advances; the run reads it in the second loop only, so that
\* time passing earlier in the run shows there
Tick ==
    /\ pc \in { "idle", "orphan" }
    /\ now + TickStep <= MaxNow
    /\ now' = now + TickStep
    /\ calm' = FALSE
    /\ UNCHANGED << policy, main, normalizer >>
    /\ UNCHANGED << calendar_items, calendar, next_id, wrapped_events,
                    local_tz, pc,
                    calendar_item_dict, lecture_event_dict, i, j, item,
                    attempts, ret, run, log >>

\* update_changed_events up to the first loop
UpdateStart ==
    /\ pc = "idle"
    /\ calendar_items' = get_calendar_items(<< get_default_organizer >>)
    /\ calendar_item_dict' = ItemDict(calendar_items')
    /\ lecture_event_dict' = EventDict(wrapped_events)
    /\ i' = 1
    /\ j' = 1
    /\ log' = << >>
    /\ pc' = "diff"
    /\ UNCHANGED << policy, main, normalizer >>
    /\ UNCHANGED << calendar, next_id, wrapped_events, local_tz, now, item,
                    attempts, ret, run, calm >>

\* imported_event.to_outlook_event(account): the item is saved, or save raises
\* and the exception leaves update_changed_events
Create(d, sofar) ==
    \E ok \in BOOLEAN :
        LET new == NewItem(d, next_id) IN
        IF ok
        THEN /\ calendar' = Append(calendar, new)
             /\ next_id' = next_id + 1
             /\ log' = Append(sofar, Entry("create", "diff", TRUE, new, d.organizer))
             /\ i' = i + 1
             /\ pc' = "diff"
             /\ calm' = calm
        ELSE /\ log' = Append(sofar, Entry("create", "diff", FALSE, NoItem, d.organizer))
             /\ pc' = "aborted"
             /\ calm' = FALSE
             /\ UNCHANGED << calendar, next_id, i >>

Imported == lecture_event_dict[i].v

\* the loop body when no calendar item has the event's organizer
DiffCreate ==
    /\ pc = "diff"
    /\ i <= Len(lecture_event_dict)
    /\ ~ DictHas(calendar_item_dict, Imported.organizer)
    /\ Create(Imported, log)
    /\ UNCHANGED << policy, main, normalizer >>
    /\ UNCHANGED << calendar_items, wrapped_events, local_tz, now,
                    calendar_item_dict,
                    lecture_event_dict, j, item, attempts, ret, run >>

\* the loop body when the corresponding calendar item equals the event
DiffUpToDate ==
    /\ pc = "diff"
    /\ i <= Len(lecture_event_dict)
    /\ DictHas(calendar_item_dict, Imported.organizer)
    /\ Eq(Imported,
          from_outlook_event(DictGet(calendar_item_dict, Imported.organizer)))
    /\ i' = i + 1
    /\ UNCHANGED << policy, main, normalizer >>
    /\ UNCHANGED << calendar_items, calendar, next_id, wrapped_events,
                    local_tz, now, pc,
                    calendar_item_dict, lecture_event_dict, j, item, attempts,
                    ret, run, log, calm >>

\* the loop body when it differs: try_deleting_calendar_item is called
DiffChanged ==
    /\ pc = "diff"
    /\ i <= Len(lecture_event_dict)
    /\ DictHas(calendar_item_dict, Imported.organizer)
    /\ ~ Eq(Imported,
            from_outlook_event(DictGet(calendar_item_dict, Imported.organizer)))
    /\ item' = DictGet(calendar_item_dict, Imported.organizer)
    /\ attempts' = 0
    /\ pc' = "diff_delete"
    /\ UNCHANGED << policy, main, normalizer >>
    /\ UNCHANGED << calendar_items, calendar, next_id, wrapped_events,
                    local_tz, now,
                    calendar_item_dict, lecture_event_dict, i, j, ret, run,
                    log, calm >>

Phase == IF pc = "diff_delete" THEN "diff" ELSE "orphan"
Returned == IF pc = "diff_delete" THEN "diff_deleted" ELSE "orphan_deleted"

\* a loop that goes round once more
MayAttempt_OnceMore == attempts <= MaxAttempts

\* while attempts < 5
MayAttempt == attempts < MaxAttempts

\* one pass of the while loop of try_deleting_calendar_item, or its exit
try_deleting_calendar_item ==
    /\ pc \in { "diff_delete", "orphan_delete" }
    /\ IF MayAttempt
       THEN \E ok \in BOOLEAN :
                IF ok
                THEN /\ calendar' = Remove(calendar, item)
                     /\ ret' = TRUE
                     /\ pc' = Returned
                     /\ log' = Append(log, Entry("delete", Phase, TRUE, item,
                                                 OrganizerEmail(item)))
                     /\ UNCHANGED << attempts, calm >>
                ELSE /\ attempts' = attempts + 1
                     /\ calm' = FALSE
                     /\ UNCHANGED << calendar, ret, pc, log >>
       ELSE /\ ret' = FALSE
            /\ pc' = Returned
            /\ log' = Append(log, Entry("delete", Phase, FALSE, item,
                                        OrganizerEmail(item)))
            /\ UNCHANGED << calendar, attempts, calm >>
    /\ UNCHANGED << policy, main, normalizer >>
    /\ UNCHANGED << calendar_items, next_id, wrapped_events, local_tz, now,
                    calendar_item_dict,
                    lecture_event_dict, i, j, item, run >>

\* an index that keeps the deleted item
Forget_Never(deleted) == calendar_item_dict

\* if try_deleting_calendar_item(...): del calendar_item_dict[organizer]
Forget(deleted) ==
    IF deleted THEN DictDel(calendar_item_dict, Imported.organizer)
    ELSE calendar_item_dict

\* after the call: the dict entry goes if it returned True, and the event is added
DiffReplace ==
    /\ pc = "diff_deleted"
    /\ calendar_item_dict' = Forget(ret)
    /\ Create(Imported, log)
    /\ UNCHANGED << policy, main, normalizer >>
    /\ UNCHANGED << calendar_items, wrapped_events, local_tz, now,
                    lecture_event_dict, j, item,
                    attempts, ret, run >>

\* the first loop is over: the comparison of the two dicts' lengths
DiffEnd ==
    /\ pc = "diff"
    /\ i > Len(lecture_event_dict)
    /\ pc' = IF Len(calendar_item_dict) > Len(lecture_event_dict)
             THEN "orphan" ELSE "done"
    /\ j' = 1
    /\ UNCHANGED << policy, main, normalizer >>
    /\ UNCHANGED << calendar_items, calendar, next_id, wrapped_events,
                    local_tz, now,
                    calendar_item_dict, lecture_event_dict, i, item, attempts,
                    ret, run, log, calm >>

Orphan == calendar_item_dict[j].v

\* a test that also takes the item starting at this very instant
ShouldDelete_NotStrict(it) ==
    /\ ~ DictHas(lecture_event_dict, OrganizerEmail(it))
    /\ Instant(from_outlook_event(it).start_dt, local_tz) >= now

\* is the calendar item to be deleted by the second loop
ShouldDelete(it) ==
    /\ ~ DictHas(lecture_event_dict, OrganizerEmail(it))
    /\ Instant(from_outlook_event(it).start_dt, local_tz) > now

\* the body of the second loop
OrphanStep ==
    /\ pc = "orphan"
    /\ j <= Len(calendar_item_dict)
    /\ IF ShouldDelete(Orphan)
       THEN /\ item' = Orphan
            /\ attempts' = 0
            /\ pc' = "orphan_delete"
            /\ j' = j
       ELSE /\ j' = j + 1
            /\ UNCHANGED << item, attempts, pc >>
    /\ UNCHANGED << policy, main, normalizer >>
    /\ UNCHANGED << calendar_items, calendar, next_id, wrapped_events,
                    local_tz, now,
                    calendar_item_dict, lecture_event_dict, i, ret, run, log,
                    calm >>

\* after the call in the second loop: its result is not used
OrphanNext ==
    /\ pc = "orphan_deleted"
    /\ j' = j + 1
    /\ pc' = "orphan"
    /\ UNCHANGED << policy, main, normalizer >>
    /\ UNCHANGED << calendar_items, calendar, next_id, wrapped_events,
                    local_tz, now,
                    calendar_item_dict, lecture_event_dict, i, item, attempts,
                    ret, run, log, calm >>

\* the second loop is over: update_changed_events returns
OrphanEnd ==
    /\ pc = "orphan"
    /\ j > Len(calendar_item_dict)
    /\ pc' = "done"
    /\ UNCHANGED << policy, main, normalizer >>
    /\ UNCHANGED << calendar_items, calendar, next_id, wrapped_events,
                    local_tz, now,
                    calendar_item_dict, lecture_event_dict, i, j, item,
                    attempts, ret, run, log, calm >>

\* the script is run again with the same source events
Rerun ==
    /\ pc = "done"
    /\ run < MaxRuns
    /\ run' = run + 1
    /\ pc' = "idle"
    /\ UNCHANGED << policy, main, normalizer >>
    /\ UNCHANGED << calendar_items, calendar, next_id, wrapped_events,
                    local_tz, now,
                    calendar_item_dict, lecture_event_dict, i, j, item,
                    attempts, ret, log, calm >>

\* one run of the script
Next ==
    \/ Tick
    \/ UpdateStart
    \/ DiffCreate
    \/ DiffUpToDate
    \/ DiffChanged
    \/ try_deleting_calendar_item
    \/ DiffReplace
    \/ DiffEnd
    \/ OrphanStep
    \/ OrphanNext
    \/ OrphanEnd

Spec == Init /\ [][Next]_vars

\* runs in succession
NextAgain ==
    \/ Next
    \/ Rerun

SpecAgain == Init /\ [][NextAgain]_vars

(* A run on events in two zones *)

MaxZoned == 1        \* calendar items, and events, of a run on zoned events

\* the source's events, the start given in UTC or in Vienna's zone
ZonedEvents ==
    [ subject   : Subjects,
      start_dt  : [ wall  : { Late, Late + Vienna },
                    aware : { TRUE },
                    tz    : { 0, Vienna } ],
      duration  : Durations,
      location  : { "-" },
      organizer : Organizers,
      is_online : { FALSE },
      kind      : { "Lehrveranstaltung" } ]

InitZoned ==
    /\ \E n \in 0..MaxZoned : \E f \in [1..n -> ItemBodies] :
           /\ calendar = [p \in 1..n |-> StoredItem(f[p], p)]
           /\ next_id = n + 1
    /\ \E n \in 0..MaxZoned : wrapped_events \in [1..n -> ZonedEvents]
    /\ local_tz = Vienna
    /\ now = Now0
    /\ pc = "idle"
    /\ calendar_items = << >>
    /\ calendar_item_dict = << >>
    /\ lecture_event_dict = << >>
    /\ i = 1
    /\ j = 1
    /\ item = NoItem
    /\ attempts = 0
    /\ ret = FALSE
    /\ run = 1
    /\ log = << >>
    /\ calm = TRUE
    /\ policy = NoPolicy
    /\ MainIdle
    /\ NormalizerIdle

SpecZoned == InitZoned /\ [][Next]_vars

-----------------------------------------------------------------------------
(* The main program of lecture_calendar_fixer.py.  env holds what config.py *)
(* and the environment answer: the two mode switches, and whether           *)
(* WEBCAL_URL, USER, EXCHANGE_EMAIL and the keyring password are set.       *)

Envs ==
    [ use_ical_link  : BOOLEAN,
      use_api_call   : BOOLEAN,
      WEBCAL_URL     : BOOLEAN,
      USER           : BOOLEAN,
      EXCHANGE_EMAIL : BOOLEAN,
      password       : BOOLEAN ]

\* update_changed_events and the provider are not looked at
ReconcilerIdle ==
    /\ calendar = << >>
    /\ next_id = 1
    /\ wrapped_events = << >>
    /\ local_tz = Vienna
    /\ now = Now0
    /\ pc = "idle"
    /\ calendar_items = << >>
    /\ calendar_item_dict = << >>
    /\ lecture_event_dict = << >>
    /\ i = 1
    /\ j = 1
    /\ item = NoItem
    /\ attempts = 0
    /\ ret = FALSE
    /\ run = 1
    /\ log = << >>
    /\ calm = TRUE

InitMain ==
    /\ env \in Envs
    /\ mpc = "start"
    /\ calls = << >>
    /\ ReconcilerIdle
    /\ policy = NoPolicy
    /\ NormalizerIdle

\* if config.use_ical_link() and config.use_api_call()
BothModes == env.use_ical_link /\ env.use_api_call

\* a guard that lets no mode through
NoMode_Never == FALSE

\* if not (config.use_ical_link() or config.use_api_call())
NoMode == ~ (env.use_ical_link \/ env.use_api_call)

\* the first check of the modes
CheckBoth ==
    /\ mpc = "start"
    /\ mpc' = IF BothModes THEN "exit1" ELSE "one_at_most"
    /\ UNCHANGED << reconciler, policy, env, calls, normalizer >>

\* the second check of the modes
CheckNeither ==
    /\ mpc = "one_at_most"
    /\ mpc' = IF NoMode THEN "exit1" ELSE "mode_ok"
    /\ UNCHANGED << reconciler, policy, env, calls, normalizer >>

\* os.getenv of the parameter of the mode: WEBCAL_URL in feed mode, USER in
\* API mode
ReadParameter ==
    /\ mpc = "mode_ok"
    /\ mpc' = IF env.use_ical_link
              THEN IF env.WEBCAL_URL THEN "fetch_ical" ELSE "exit1"
              ELSE IF env.use_api_call
              THEN IF env.USER THEN "fetch_api" ELSE "exit1"
              ELSE "fetched"
    /\ UNCHANGED << reconciler, policy, env, calls, normalizer >>

\* requests.get(url): a RequestException ends the program with exit(1)
FetchIcal ==
    /\ mpc = "fetch_ical"
    /\ calls' = Append(calls, "requests.get")
    /\ \E ok \in BOOLEAN : mpc' = IF ok THEN "fetched" ELSE "exit1"
    /\ UNCHANGED << reconciler, policy, env, normalizer >>

\* load_from_mymci_api(user): an exception is caught nowhere
FetchApi ==
    /\ mpc = "fetch_api"
    /\ calls' = Append(calls, "load_from_mymci_api")
    /\ \E ok \in BOOLEAN : mpc' = IF ok THEN "fetched" ELSE "crashed"
    /\ UNCHANGED << reconciler, policy, env, normalizer >>

\* ExchangeAccountManager(): ValueError without the e-mail address or the
\* password, which the main program turns into exit(1)
Credentials ==
    /\ mpc = "fetched"
    /\ mpc' = IF env.EXCHANGE_EMAIL /\ env.password THEN "exchange" ELSE "exit1"
    /\ UNCHANGED << reconciler, policy, env, calls, normalizer >>

\* update_changed_events(wrapped_events, exchange_manager) is called
Update ==
    /\ mpc = "exchange"
    /\ calls' = Append(calls, "update_changed_events")
    /\ mpc' = "updating"
    /\ UNCHANGED << reconciler, policy, env, normalizer >>

NextMain ==
    \/ CheckBoth
    \/ CheckNeither
    \/ ReadParameter
    \/ FetchIcal
    \/ FetchApi
    \/ Credentials
    \/ Update

SpecMain == InitMain /\ [][NextMain]_vars

-----------------------------------------------------------------------------
(* The conversions of one source record: the filter and the constructor of *)
(* lecture_calendar_fixer.py and event.py, then to_outlook_event.          *)

\* the position of the first sep in s from position p on, 0 if there is none
RECURSIVE Find(_, _, _)
Find(s, sep, p) ==
    IF p + Len(sep) - 1 > Len(s) THEN 0
    ELSE IF SubSeq(s, p, p + Len(sep) - 1) = sep THEN p
    ELSE Find(s, sep, p + 1)

\* str.split(sep)
RECURSIVE Split(_, _)
Split(s, sep) ==
    LET p == Find(s, sep, 1) IN
    IF p = 0 THEN << s >>
    ELSE << SubSeq(s, 1, p - 1) >> \o Split(SubSeq(s, p + Len(sep), Len(s)), sep)

\* `sub in s` on str
Contains(sub, s) == Find(s, sub, 1) # 0

\* int(x / y): the quotient cut towards zero
TruncDiv(x, y) == IF x >= 0 THEN x \div y ELSE - ((- x) \div y)

\* (end_dt - start_dt).total_seconds()
total_seconds(end_dt, start_dt) ==
    (Instant(end_dt, local_tz) - Instant(start_dt, local_tz)) * 60
        + end_dt.second - start_dt.second

Digits == { "0", "1", "2", "3", "4", "5", "6", "7", "8", "9" }

\* str.isnumeric() of one character
isnumeric(c) == c \in Digits

\* a key that always carries the id
ApiOrganizer_WithId(id) == get_default_organizer \o "-" \o id

\* the organizer of from_api_dict, for an id with a first character
ApiOrganizer(id) ==
    IF isnumeric(SubSeq(id, 1, 1))
    THEN get_default_organizer \o "-" \o id
    ELSE get_default_organizer

\* EventWrapper.from_api_dict; id[0] raises IndexError on an empty id
from_api_dict(api_dict) ==
    [ subject   |-> api_dict.title,
      start_dt  |-> api_dict.start,
      duration  |-> TruncDiv(total_seconds(api_dict.end, api_dict.start), 60),
      location  |-> IF api_dict.raeume # << >>
                    THEN api_dict.raeume[1].raum \o " / "
                             \o api_dict.raeume[1].standort
                    ELSE "-",
      organizer |-> ApiOrganizer(api_dict.id),
      is_online |-> api_dict.online,
      kind      |-> api_dict.art ]

\* EventWrapper.from_ical_event; "" stands for a property that is not there
from_ical_event(event) ==
    [ subject   |-> event.summary,
      start_dt  |-> event.dtstart,
      duration  |-> TruncDiv(total_seconds(event.dtend, event.dtstart), 60),
      location  |-> IF event.location # "" THEN event.location ELSE "-",
      organizer |-> IF event.UID # "" THEN event.UID ELSE get_default_organizer,
      is_online |-> FALSE,
      kind      |-> "Lehrveranstaltung" ]

\* the kinds webcal_dict_to_wrapper lets through
AdmittedKinds == { "Lehrveranstaltung", "Prüfung", "Sonstiges" }

\* the kinds to_outlook_event keeps busy, as event.py spells them
AlwaysBusyKinds == { "Lehrveranstaltung", "PrÃ¼fung", "Sonstiges" }

\* config.py
is_async_online_lecture(subject, room) == << subject, room >> \in policy.async
at_different_location(mci_location) == mci_location \in policy.elsewhere
get_travel_time(mci_location) == policy.travel

OtherSiteCategory == << "Vorlesung-Anderer-Standort" >>
BaseReminder == 15

\* the default values of to_outlook_event
Defaults ==
    [ category                |-> LectureCategory,
      reminder_on             |-> TRUE,
      reminder_time           |-> BaseReminder,
      legacy_free_busy_status |-> "Busy" ]

\* the rules with the site looked at first
Rules_SiteFirst(e, room, mci_location) ==
    IF at_different_location(mci_location)
    THEN [ Defaults EXCEPT !.category = OtherSiteCategory,
                           !.reminder_time = @ + get_travel_time(mci_location) ]
    ELSE IF is_async_online_lecture(e.subject, room)
    THEN [ Defaults EXCEPT !.legacy_free_busy_status = "Free",
                           !.reminder_on = FALSE ]
    ELSE IF e.kind \notin AlwaysBusyKinds
    THEN [ Defaults EXCEPT !.legacy_free_busy_status = "Free" ]
    ELSE Defaults

\* the if / elif / elif of to_outlook_event
Rules(e, room, mci_location) ==
    IF is_async_online_lecture(e.subject, room)
    THEN [ Defaults EXCEPT !.legacy_free_busy_status = "Free",
                           !.reminder_on = FALSE ]
    ELSE IF at_different_location(mci_location)
    THEN [ Defaults EXCEPT !.category = OtherSiteCategory,
                           !.reminder_time = @ + get_travel_time(mci_location) ]
    ELSE IF e.kind \notin AlwaysBusyKinds
    THEN [ Defaults EXCEPT !.legacy_free_busy_status = "Free" ]
    ELSE Defaults

\* room, mci_location, *_ = self.location.split(" / ") needs two parts
Unpacks(e) == e.location = "-" \/ Len(Split(e.location, " / ")) >= 2

Settings(e) ==
    IF e.location = "-" THEN Defaults
    ELSE LET parts == Split(e.location, " / ") IN Rules(e, parts[1], parts[2])

\* an event that is never past
is_past_Never(e) == FALSE

\* self.start_dt < datetime.now(tz): a naive start is read in the local zone
is_past(e) == Instant(e.start_dt, local_tz) < now

\* the CalendarItem of to_outlook_event, as it is saved; without a reminder
\* reminder_minutes_before_start is not passed and stays 0
to_outlook_event(e, id) ==
    LET it == NewItem(e, id)
        set == Settings(e)
        remind == (~ is_past(e)) /\ set.reminder_on
    IN  [ id                            |-> it.id,
          subject                       |-> it.subject,
          start                         |-> it.start,
          end                           |-> it.end,
          location                      |-> it.location,
          organizer                     |-> it.organizer,
          categories                    |-> { set.category, MarkerCategory },
          legacy_free_busy_status       |-> set.legacy_free_busy_status,
          reminder_is_set               |-> remind,
          reminder_minutes_before_start |-> IF remind THEN set.reminder_time ELSE 0,
          send_meeting_invitations      |-> "SEND_TO_NONE" ]

(* The records of the source *)

Titles == { "Math" }
Travel == 30

\* what config.py may answer
Policies ==
    [ async     : { { }, { << "Math", "Online" >> } },
      elsewhere : { { }, { "Landeck" } },
      travel    : { Travel } ]

Datetime(wall, aware, second) ==
    [ wall |-> wall, aware |-> aware, tz |-> Vienna, second |-> second ]

\* start and end of a record: the start before, at and after Now0; the end
\* an hour before the start, at the start (half a minute apart or not), or
\* a lecture later
Spans ==
    { << Datetime(t + Vienna, a, s[1]), Datetime(t + Vienna + d, a, s[2]) >> :
        t \in { Now0 - TickStep, Now0, Now0 + TickStep },
        a \in BOOLEAN,
        d \in { - TickStep, 0 } \cup Durations,
        s \in { << 0, 0 >>, << 30, 0 >>, << 0, 30 >> } } 

Rooms ==
    { << >>,
      << [ raum |-> "HS1", standort |-> "Innsbruck" ] >>,
      << [ raum |-> "Online", standort |-> "Landeck" ] >> }

\* the records of load_from_mymci_api, start and end as fromisoformat reads
\* them
ApiDicts ==
    { [ type |-> "api", title |-> t, start |-> sp[1], end |-> sp[2], art |-> k,
        online |-> o, raeume |-> r, id |-> x ] :
        t \in Titles,
        sp \in { q \in Spans : q[1].second # q[2].second => q[1].wall = q[2].wall },
        k \in AdmittedKinds \cup { "Abgabe" },
        o \in BOOLEAN,
        r \in Rooms,
        x \in { "42-abc", "abc-42", "7", "" } }

\* the VEVENTs of the feed
ICalEvents ==
    { [ type |-> "ical", summary |-> t, dtstart |-> sp[1], dtend |-> sp[2],
        location |-> l, UID |-> u ] :
        t \in Titles \cup { "Abgabetermin Math" },
        sp \in { q \in Spans : q[1].second = 0 /\ q[2].second = 0 },
        l \in { "", "HS1", "HS1 / Innsbruck", "Online / Landeck" },
        u \in { "", "MCI-DESIGNER-TERMIN-1", "MCI-SAKAI-TERMIN-2" } }

InitNorm ==
    /\ source \in ApiDicts \cup ICalEvents
    /\ made = NoRecord
    /\ saved = NoRecord
    /\ npc = "source"
    /\ policy \in Policies
    /\ ReconcilerIdle
    /\ MainIdle

\* one turn of the loop of webcal_dict_to_wrapper
WebcalDictToWrapper ==
    /\ npc = "source"
    /\ source.type = "api"
    /\ IF source.art \notin AdmittedKinds
       THEN npc' = "skipped" /\ made' = made
       ELSE IF source.id = ""
       THEN npc' = "raised" /\ made' = made
       ELSE npc' = "made" /\ made' = from_api_dict(source)
    /\ UNCHANGED << reconciler, policy, main, source, saved >>

\* one turn of the loop of webcal_to_wrapper; event["uid"] raises KeyError
\* when the VEVENT has no UID
WebcalToWrapper ==
    /\ npc = "source"
    /\ source.type = "ical"
    /\ IF Contains("Abgabetermin", source.summary)
       THEN npc' = "skipped" /\ made' = made
       ELSE IF source.UID = ""
       THEN npc' = "raised" /\ made' = made
       ELSE IF Contains("MCI-SAKAI-TERMIN", source.UID)
       THEN npc' = "skipped" /\ made' = made
       ELSE npc' = "made" /\ made' = from_ical_event(source)
    /\ UNCHANGED << reconciler, policy, main, source, saved >>

\* made.to_outlook_event(account): the unpacking of the location may raise
\* ValueError, and so may item.save()
ToOutlookEvent ==
    /\ npc = "made"
    /\ IF Unpacks(made)
       THEN \E ok \in BOOLEAN :
                IF ok
                THEN npc' = "saved" /\ saved' = to_outlook_event(made, next_id)
                ELSE npc' = "raised" /\ saved' = saved
       ELSE npc' = "raised" /\ saved' = saved
    /\ UNCHANGED << reconciler, policy, main, source, made >>

NextNorm ==
    \/ WebcalDictToWrapper
    \/ WebcalToWrapper
    \/ ToOutlookEvent

SpecNorm == InitNorm /\ [][NextNorm]_vars

-----------------------------------------------------------------------------
(* Vocabulary of the properties *)

Ops == 1..Len(log)
IsDelete(p) == log[p].op = "delete"
IsCreate(p) == log[p].op = "create"
InCalendar(it) == \E q \in 1..Len(calendar) : calendar[q].id = it.id

\* the index of existing items as the run built it, before any deletion
Existing == ItemDict(calendar_items)

\* the first loop is over
AfterDiff == pc \in { "orphan", "orphan_delete", "orphan_deleted", "done" }

\* C1: when try_deleting_calendar_item gave up on the changed item e of a
\* desired event d (all 5 attempts failed), the run issues no Create for d,
\* and e is still in the calendar.
C1_NoCreateAfterFailedDelete ==
    \A p \in Ops :
        (IsDelete(p) /\ log[p].phase = "diff" /\ ~ log[p].ok)
            => /\ InCalendar(log[p].it)
               /\ \A q \in Ops : ~ (IsCreate(q) /\ log[q].key = log[p].key)

\* C2: a second run with the same desired events, after a first run in which
\* every provider call succeeded and with the clock unchanged, issues no
\* Create and no Delete.
C2_SecondRunIdle ==
    (run >= 2 /\ calm /\ pc # "idle") => log = << >>

\* the owned items that stand for the desired event with key k: those whose
\* organizer is k, and those this run created for k
StandFor(k) ==
    { q \in 1..Len(calendar) :
        /\ \E cat \in calendar[q].categories : IsIn(MarkerCategory, cat)
        /\ \/ OrganizerEmail(calendar[q]) = k
           \/ \E p \in Ops : /\ IsCreate(p) /\ log[p].ok /\ log[p].key = k
                             /\ log[p].it.id = calendar[q].id }

UniqueKeys(items) ==
    \A p, q \in 1..Len(items) :
        OrganizerEmail(items[p]) = OrganizerEmail(items[q]) => p = q

\* C3: a run that found at most one owned item per key leaves at most one
\* owned item per key, whatever the delete attempts did.
C3_NoDuplicates ==
    (pc = "done" /\ UniqueKeys(calendar_items))
        => \A p \in 1..Len(lecture_event_dict) :
               Cardinality(StandFor(lecture_event_dict[p].k)) <= 1

\* C4: a changed item e whose delete succeeded is deleted exactly once, is
\* gone from the calendar and from the index, and the next operation of the
\* run is the one Create of the desired event d with e's key.
C4_DeleteThenCreate ==
    \A p \in Ops :
        (IsDelete(p) /\ log[p].phase = "diff" /\ log[p].ok)
            => /\ ~ InCalendar(log[p].it)
               /\ { q \in Ops : IsDelete(q) /\ log[q].it.id = log[p].it.id } = { p }
               /\ IF p = Len(log)
                  THEN pc = "diff_deleted"
                  ELSE /\ IsCreate(p + 1)
                       /\ { q \in Ops : IsCreate(q) /\ log[q].key = log[p].key }
                              = { p + 1 }
                       /\ ~ DictHas(calendar_item_dict, log[p].key)
                       /\ log[p + 1].ok
                              => /\ InCalendar(log[p + 1].it)
                                 /\ log[p + 1].it.start =
                                        Instant(DictGet(lecture_event_dict,
                                                        log[p].key).start_dt,
                                                Vienna)

C4_Witness ==
    /\ pc = "done"
    /\ \E p \in Ops : /\ IsDelete(p) /\ log[p].phase = "diff" /\ log[p].ok
                      /\ p < Len(log) /\ log[p + 1].ok
                      /\ log[p + 1].it.start # log[p].it.start

\* the last record of wrapped_events with organizer k
LastWith(k) ==
    wrapped_events[CHOOSE p \in 1..Len(wrapped_events) :
                       /\ wrapped_events[p].organizer = k
                       /\ \A q \in (p + 1)..Len(wrapped_events) :
                              wrapped_events[q].organizer # k]

DesiredKeys == { wrapped_events[p].organizer : p \in 1..Len(wrapped_events) }

\* the Creates the run has issued by now for the entry at position p of the
\* desired dict: one once the loop has passed it, or has been left in it by
\* a Create that raised
Due(p) ==
    IF p < i \/ (p = i /\ pc = "aborted") THEN 1 ELSE 0

SameFields(d, w) ==
    /\ d.subject = w.subject
    /\ Strftime(d.start_dt) = Strftime(w.start_dt)
    /\ d.duration = w.duration
    /\ d.location = w.location
    /\ d.organizer = w.organizer

\* C6: a desired event d whose key is indexed to an item e with the same
\* subject, start, duration, location and organizer gets no Delete and no
\* Create, and e stays in the calendar as it was, also when d.is_online or
\* d.kind differ from e's.
C6_UpToDateUntouched ==
    \A p \in 1..Len(lecture_event_dict) :
        LET d == lecture_event_dict[p].v IN
        (/\ DictHas(Existing, d.organizer)
         /\ SameFields(d, from_outlook_event(DictGet(Existing, d.organizer))))
            => /\ \A q \in Ops : log[q].key # d.organizer
               /\ \E q \in 1..Len(calendar) :
                      calendar[q] = DictGet(Existing, d.organizer)

C6_Witness ==
    /\ pc = "done"
    /\ log # << >>
    /\ \E p \in 1..Len(lecture_event_dict) :
           LET d == lecture_event_dict[p].v IN
           /\ DictHas(Existing, d.organizer)
           /\ SameFields(d, from_outlook_event(DictGet(Existing, d.organizer)))
           /\ d.is_online # from_outlook_event(DictGet(Existing, d.organizer)).is_online

\* C7: the second loop deletes only when the index holds more entries than
\* the desired dict, and only indexed items whose key no desired event has
\* and whose start is later than the clock; no unmatched item that has
\* started is ever deleted.
C7_OrphanOnlyFuture ==
    /\ pc \in { "orphan", "orphan_delete", "orphan_deleted" }
           => Len(calendar_item_dict) > Len(lecture_event_dict)
    /\ \A p \in Ops :
           IsDelete(p)
               => /\ log[p].phase = "orphan"
                      => /\ Len(calendar_item_dict) > Len(lecture_event_dict)
                         /\ DictHas(calendar_item_dict, log[p].key)
                         /\ DictGet(calendar_item_dict, log[p].key) = log[p].it
                         /\ log[p].key \notin DesiredKeys
                  /\ log[p].key \notin DesiredKeys => log[p].it.start > log[p].at

C7_Witness ==
    /\ pc = "done"
    /\ \E p \in Ops : IsDelete(p) /\ log[p].phase = "orphan" /\ log[p].ok
    /\ \E q \in 1..Len(calendar_item_dict) :
           /\ calendar_item_dict[q].k \notin DesiredKeys
           /\ calendar_item_dict[q].v.start = now
           /\ InCalendar(calendar_item_dict[q].v)

Deleting == { "diff_delete", "orphan_delete" }
HasReturned == { "diff_deleted", "orphan_deleted" }

\* C8: try_deleting_calendar_item attempts a delete only while fewer than 5
\* attempts have failed, returns True at the first success and False after
\* the 5th failure, never ends the run, and nothing leaves the calendar but
\* through one of its attempts.
C8_BoundedRetry ==
    /\ [](/\ attempts <= MaxAttempts
          /\ pc \in HasReturned => (ret <=> attempts < MaxAttempts))
    /\ [][/\ pc \in Deleting => pc' \in Deleting \cup HasReturned
          /\ (pc \in Deleting /\ attempts' # attempts)
                 => attempts < MaxAttempts /\ attempts' = attempts + 1
          /\ Len(calendar') < Len(calendar)
                 => /\ pc \in Deleting
                    /\ attempts < MaxAttempts
                    /\ calendar' = Remove(calendar, item)
                    /\ pc' \in HasReturned
                    /\ ret']_vars

C8_Witness ==
    /\ pc = "orphan_deleted"
    /\ ~ ret
    /\ attempts = MaxAttempts
    /\ InCalendar(item)

\* C9: a Create that raised, or a Delete that failed, does not end the run.
C9_FailureDoesNotAbort ==
    \A p \in Ops : ~ log[p].ok => pc # "aborted"

HasMarker(it) == \E cat \in it.categories : IsIn(MarkerCategory, cat)
Foreign(cal) == SelectSeq(cal, LAMBDA it : ~ HasMarker(it))

\* C10: the calendar items without the marker category never change, and
\* every Delete is of an item get_calendar_items returned, which has it.
C10_ForeignUntouched ==
    /\ [](\A p \in Ops :
              IsDelete(p)
                  => /\ HasMarker(log[p].it)
                     /\ \E q \in 1..Len(calendar_items) :
                            calendar_items[q] = log[p].it)
    /\ [][Foreign(calendar') = Foreign(calendar)]_vars

C10_Witness ==
    /\ pc = "done"
    /\ \E p \in Ops : IsDelete(p) /\ log[p].phase = "orphan" /\ log[p].ok
    /\ \E q \in 1..Len(calendar) :
           /\ ~ HasMarker(calendar[q])
           /\ OrganizerEmail(calendar[q]) \notin DesiredKeys
           /\ calendar[q].start > now


-----------------------------------------------------------------------------
(* Properties of the main program *)

Called(name) == \E p \in 1..Len(calls) : calls[p] = name
Fetches == { "requests.get", "load_from_mymci_api" }
Network == Fetches \cup { "update_changed_events" }

\* exactly one mode is selected
OneMode == env.use_ical_link # env.use_api_call

\* the parameter of the selected mode is set
HasParameter ==
    IF env.use_ical_link THEN env.WEBCAL_URL ELSE env.USER

\* C11: with no mode or both modes selected, or without the parameter of the
\* selected mode, the main program makes no fetch and never calls
\* update_changed_events, and where it has ended it has ended with
\* exit(1); with one mode and its parameter it does not end before the fetch.
C11_RefusesBadModes ==
    /\ ~ (OneMode /\ HasParameter)
           => /\ calls = << >>
              /\ mpc \in { "start", "one_at_most", "mode_ok", "exit1" }
    /\ (OneMode /\ HasParameter /\ mpc \in { "exit1", "crashed" })
           => \E c \in Fetches : Called(c)

C11_Witness ==
    /\ mpc = "exit1"
    /\ OneMode
    /\ ~ HasParameter
    /\ env.EXCHANGE_EMAIL /\ env.password

\* C12: when the mode selection is bad or WEBCAL_URL, USER, EXCHANGE_EMAIL
\* or the keyring password is missing, the program makes no network call.
C12_NoCallOnConfigError ==
    ~ (OneMode /\ HasParameter /\ env.EXCHANGE_EMAIL /\ env.password)
        => \A c \in Network : ~ Called(c)

-----------------------------------------------------------------------------
(* Properties of the conversions *)

Made == npc \in { "made", "saved" }
Saved == npc = "saved"

HasPlace == made.location # "-"
Place == Split(made.location, " / ")
IsAsync == HasPlace /\ << made.subject, Place[1] >> \in policy.async
IsOtherSite == HasPlace /\ Place[2] \in policy.elsewhere
IsFuture == saved.start > now
IsOver == saved.start < now

\* C13: the key from_api_dict computes is the default owner, a hyphen and the
\* id when the id begins with a digit, and the default owner alone
\* otherwise; it depends on nothing but the id.
C13_ApiIdentityKey ==
    (Made /\ source.type = "api") =>
        /\ made.organizer =
               IF SubSeq(source.id, 1, 1) \in Digits
               THEN "MCI-DESIGNER-TERMIN-" \o source.id
               ELSE "MCI-DESIGNER-TERMIN"
        /\ source.id = "42-abc" => made.organizer = "MCI-DESIGNER-TERMIN-42-abc"
        /\ source.id = "abc-42" => made.organizer = get_default_organizer

C13_Witness ==
    /\ Made
    /\ source.type = "api"
    /\ source.id = "abc-42"
    /\ made.organizer = "MCI-DESIGNER-TERMIN"

\* C14: the saved item follows the first rule that applies, in the order
\* async session (free, no reminder), other site (other-site category, base
\* plus travel time), kind not always busy (free); without a location it
\* has the defaults: lecture category, busy, base reminder.
C14_RulesInOrder ==
    Saved =>
        /\ IsAsync =>
               /\ saved.legacy_free_busy_status = "Free"
               /\ ~ saved.reminder_is_set
               /\ saved.categories = { LectureCategory, MarkerCategory }
        /\ (~ IsAsync /\ IsOtherSite) =>
               /\ saved.legacy_free_busy_status = "Busy"
               /\ saved.categories = { OtherSiteCategory, MarkerCategory }
               /\ IsFuture =>
                      /\ saved.reminder_is_set
                      /\ saved.reminder_minutes_before_start
                             = BaseReminder + policy.travel
        /\ (~ IsAsync /\ ~ IsOtherSite) =>
               /\ saved.legacy_free_busy_status =
                      IF HasPlace /\ made.kind \notin AlwaysBusyKinds
                      THEN "Free" ELSE "Busy"
               /\ saved.categories = { LectureCategory, MarkerCategory }
               /\ IsFuture =>
                      /\ saved.reminder_is_set
                      /\ saved.reminder_minutes_before_start = BaseReminder

C14_Witness ==
    /\ Saved
    /\ IsAsync
    /\ IsOtherSite
    /\ saved.legacy_free_busy_status = "Free"
    /\ saved.categories = { LectureCategory, MarkerCategory }

\* C15: a saved item has a reminder when its start is in the future and the
\* rules leave the reminder on, it has none when its start is over or the
\* rules turn the reminder off, and it is saved with SEND_TO_NONE.
C15_ReminderWhenFuture ==
    Saved =>
        /\ (IsFuture /\ ~ IsAsync) => saved.reminder_is_set
        /\ (IsOver \/ IsAsync) => ~ saved.reminder_is_set
        /\ saved.send_meeting_invitations = "SEND_TO_NONE"

C15_Witness ==
    /\ Saved
    /\ IsOver
    /\ ~ IsAsync
    /\ ~ saved.reminder_is_set

\* C16: the duration of an event made from a source record is never
\* negative.
C16_DurationNotNegative ==
    Made => made.duration >= 0

-----------------------------------------------------------------------------
(* Properties of the reconciliation across runs and zones *)

\* C17: an item created for a desired event carries the marker category, and
\* the key update_changed_events reads back from it, its organizer's
\* address, is the key of the desired event.
C17_CreatedItemKeepsKey ==
    \A p \in Ops :
        (IsCreate(p) /\ log[p].ok)
            => /\ HasMarker(log[p].it)
               /\ OrganizerEmail(log[p].it) = log[p].key

\* the items the run fetched that are still in the calendar, start in the
\* future, and have the key of no desired event
FutureOrphans ==
    { q \in 1..Len(calendar_items) :
        /\ InCalendar(calendar_items[q])
        /\ calendar_items[q].start > now
        /\ OrganizerEmail(calendar_items[q]) \notin DesiredKeys }

\* C18: when a run ends without the second loop, the existing dict being no
\* longer than the desired one, the calendar holds no owned item with a
\* start in the future and the key of no desired event.
C18_CountFilterSound ==
    (pc = "done" /\ ~ (Len(calendar_item_dict) > Len(lecture_event_dict)))
        => FutureOrphans = { }

\* equal apart from the start, and the starts the same instant
SameEvent(a, b) ==
    /\ a.subject = b.subject
    /\ a.duration = b.duration
    /\ a.location = b.location
    /\ a.organizer = b.organizer
    /\ Instant(a.start_dt, local_tz) = Instant(b.start_dt, local_tz)

\* the first loop went past the desired event d without a Delete
PassedUntouched(p) ==
    /\ p < i
    /\ DictHas(Existing, lecture_event_dict[p].k)
    /\ \A q \in Ops : IsDelete(q) => log[q].key # lecture_event_dict[p].k

\* C19: the first loop reports an existing item as changed only when it
\* differs from the desired event in title, duration, location, key or in
\* the instant of its start, and leaves it alone only when it does not.
C19_EqComparesInstants ==
    /\ pc = "diff_delete"
           => ~ SameEvent(Imported, from_outlook_event(item))
    /\ \A p \in 1..Len(lecture_event_dict) :
           PassedUntouched(p)
               => SameEvent(lecture_event_dict[p].v,
                            from_outlook_event(
                                DictGet(Existing, lecture_event_dict[p].k)))

\* C20: an item made from a record that webcal_dict_to_wrapper lets through,
\* neither an async session nor at another site, is saved as busy.
C20_AdmittedKindsBusy ==
    (Saved /\ source.type = "api" /\ ~ IsAsync /\ ~ IsOtherSite)
        => saved.legacy_free_busy_status = "Busy"

====
